---- MODULE Spec2Model ----
(***************************************************************************)
(* Credential lifecycle of personal-backend: AuthUsecase (sign-up, login,  *)
(* e-mail verification, password reset / change, token refresh, sign-out)  *)
(* over the MySQL account repository, the Redis session store, the JWT     *)
(* codec and the mail sender.                                              *)
(*                                                                         *)
(* Time is counted in half seconds: clock \div 2 is time.Now().Unix(), and *)
(* clock % 2 tells whether time.Now() lies strictly after that second.     *)
(***************************************************************************)
EXTENDS Integers, Sequences, FiniteSets, TLC

VARIABLES
    accounts,   \* rows of table account
    profiles,   \* rows of table profile
    redis,      \* entries of the session store
    clock,      \* time.Now(), in half seconds
    ticks,      \* clock advances so far
    uuidCount,  \* uuids in use are 1..uuidCount
    saltCount,  \* salts in use are those of 1..saltCount
    faults,     \* collaborator failures so far
    outbox,     \* verification mails delivered
    handed,     \* token pairs returned to callers
    res,        \* the last call: operation, error tag, returned pair
    plain,      \* history: the password each account was last given
    revoked,    \* history: refresh tokens of sign-outs that returned nil
    resets,     \* reset mails delivered, in order, each with the account the
                \* reset wrote to and the token it mailed
    inflight    \* the calls under way, by caller: how far each has come

vars == <<accounts, profiles, redis, clock, ticks, uuidCount, saltCount, faults,
          outbox, handed, res, plain, revoked, resets, inflight>>

----------------------------------------------------------------------------
(* Bounds of the model *)

\* number of uuid.New() / util.GenerateUUID() calls explored
MaxUUID == 6
\* number of clock advances explored
MaxTicks == 1
\* number of collaborator failures explored
MaxFaults == 1
\* number of ResetPassword calls explored that return nil
MaxResets == 2

----------------------------------------------------------------------------
(* Program and library constants *)

SALT_BYTES == 32
\* bcrypt reads at most 72 key bytes (18 32-bit words of the Blowfish P-array)
BcryptKeyBytes == 72
\* token lifetimes in seconds
EmailTokenLifetime == 900
ResetTokenLifetime == 86400
AccessTokenLifetime == 900
RefreshTokenLifetime == 3600

----------------------------------------------------------------------------
(* Input domains *)

Emails == {"a@x.com"}
FullNames == {"Ann"}

Bytes(n, b) == [i \in 1..n |-> b]
PwShort == <<112, 119, 49>>
\* two different passwords that agree on their first 72 bytes
PwLongA == Bytes(73, 97)
PwLongB == Bytes(74, 97)
Passwords == {PwShort, PwLongA, PwLongB}

\* the n-th value crypto/rand delivers: no two draws are alike
Salt(n) == Bytes(SALT_BYTES, n)

\* clock advances, in half seconds: a second, and just over a day
Jumps == {2, 2 * ResetTokenLifetime + 1}

Now == clock \div 2

----------------------------------------------------------------------------
(* Secret Hasher *)

\* the key bcrypt derives from: the input plus a NUL terminator, read
\* cyclically into 72 bytes
BcryptKey(key) ==
    LET ckey == key \o <<0>>
    IN  [i \in 1..BcryptKeyBytes |-> ckey[((i - 1) % Len(ckey)) + 1]]

hashPassword(password, salt) == BcryptKey(password \o salt)

comparePassword(passwordInput, salt, storedPassword) ==
    BcryptKey(passwordInput \o salt) = storedPassword

----------------------------------------------------------------------------
(* Token Codec *)

NoClaim == "-"
NoUUID == 0

\* a token string, by the claims it carries and the way it was signed:
\* "secret" = signed with JWT_SECRET, "other" = signed with another secret,
\* "corrupt" = not a well-formed token, "blank" = the empty string
Token(email, exp, account_id, access_uuid, refresh_uuid, full_name, sig) ==
    [email |-> email, exp |-> exp, account_id |-> account_id,
     access_uuid |-> access_uuid, refresh_uuid |-> refresh_uuid,
     full_name |-> full_name, sig |-> sig]

BlankToken == Token(NoClaim, 0, NoUUID, NoUUID, NoUUID, NoClaim, "blank")
CorruptToken == Token(NoClaim, 0, NoUUID, NoUUID, NoUUID, NoClaim, "corrupt")

CreateToken(email, exp, account_id, access_uuid, refresh_uuid, full_name) ==
    Token(email, exp, account_id, access_uuid, refresh_uuid, full_name, "secret")

\* the same claims signed with a secret other than JWT_SECRET
Forged(tok) == [tok EXCEPT !.sig = "other"]

\* a parse that does not check the signature
ParseTokenUnsigned(tok, now) == IF now > tok.exp THEN "expired" ELSE ""

\* jwt.ParseWithClaims into MapClaims: signature and structure, then the
\* claims' own validation, which rejects exp < now (in whole seconds)
ParseToken(tok, now) ==
    IF tok.sig # "secret" THEN "invalid"
    ELSE IF now > tok.exp THEN "expired"
    ELSE ""

\* time.Now().After(time.Unix(exp, 0))
IsExpired(tok, clk) == clk > 2 * tok.exp

----------------------------------------------------------------------------
(* Account and profile repositories (MySQL) *)

Account(id, email, password, salt, emailToken, isVerified, passwordToken) ==
    [AccountID |-> id, Email |-> email, Password |-> password, Salt |-> salt,
     EmailToken |-> emailToken, IsVerified |-> isVerified,
     PasswordToken |-> passwordToken]

AccountFilter(email, accountID) == [Email |-> email, AccountID |-> accountID]

\* the rows the SELECT of GetAccount matches; QueryRow scans one of them
\* (there is no ORDER BY), or fails with sql.ErrNoRows when there is none
GetAccount(filter) ==
    {r \in accounts :
        /\ (filter.Email # "" => r.Email = filter.Email)
        /\ (filter.AccountID # NoUUID => r.AccountID = filter.AccountID)}

\* a table without the unique key on the e-mail column
NeverDuplicate(email) == FALSE

\* MySQL error 1062 on the unique e-mail column
IsDuplicateEntry(email) == \E r \in accounts : r.Email = email

\* an update that flips the flag whatever value it is given
UpdateIsVerifiedFlip(accountId, isVerified) ==
    {IF r.AccountID = accountId THEN [r EXCEPT !.IsVerified = ~r.IsVerified] ELSE r
        : r \in accounts}

UpdateIsVerified(accountId, isVerified) ==
    {IF r.AccountID = accountId THEN [r EXCEPT !.IsVerified = isVerified] ELSE r
        : r \in accounts}

UpdateSaltAndPassword(rows, account) ==
    {IF r.AccountID = account.AccountID
        THEN [r EXCEPT !.Salt = account.Salt, !.Password = account.Password]
        ELSE r
        : r \in rows}

\* an update of the password token that writes nothing
UpdatePasswordTokenLost(rows, account) == rows

UpdatePasswordToken(rows, account) ==
    {IF r.AccountID = account.AccountID
        THEN [r EXCEPT !.PasswordToken = account.PasswordToken]
        ELSE r
        : r \in rows}

GetProfile(accountID) == {p \in profiles : p.AccountID = accountID}

----------------------------------------------------------------------------
(* Session Store (Redis) *)

\* an entry lives until the expiry time it was set with
RedisSet(store, key, value, exp) ==
    {e \in store : e.key # key} \cup {[key |-> key, value |-> value, exp |-> exp]}

RedisGet(key) == {e \in redis : e.key = key}

RedisDelete(store, key) == {e \in store : e.key # key}

RedisLive(store, clk) == {e \in store : clk < 2 * e.exp}

----------------------------------------------------------------------------
(* Errors: the tag of the cerror, "" for nil *)

\* the kind a caller can tell from the friendly message and the Type
ErrKind(tag) ==
    CASE tag = "" -> "OK"
      [] tag = "LGU03" -> "Unauthorized"
      [] tag \in {"LGU04", "RPA01"} -> "EmailNotVerified"
      [] tag \in {"RTU00", "VEA02", "CPW01", "JWT_EXPIRED"} -> "TokenExpired"
      [] tag \in {"VEA00", "CPW00", "CPW03", "JWT_INVALID"} -> "InvalidToken"
      [] tag = "IA03" -> "DuplicateEmail"
      [] tag \in {"RPA00", "CPW02", "GA02_NOROWS", "GP_NOROWS"} -> "NotFound"
      [] tag = "PANIC" -> "Panic"
      [] OTHER -> "Internal"

\* the last call: its operation, the error it returned, the pair it returned
Result(op, err, out) == [op |-> op, err |-> err, out |-> out]

\* the requests that may be served at the same time
Callers == {1, 2}

\* a call under way: the line it has reached and its locals, each a set
\* that is empty until the line that assigns it has run
Call(pc, regAccount, regProfile, token) ==
    [pc |-> pc, regAccount |-> regAccount, regProfile |-> regProfile,
     token |-> token]

Idle == Call("idle", {}, {}, {})

----------------------------------------------------------------------------
(* Initial state: empty tables, empty session store, nothing called yet *)

Init ==
    /\ accounts = {}
    /\ profiles = {}
    /\ redis = {}
    /\ clock = 0
    /\ ticks = 0
    /\ uuidCount = 0
    /\ saltCount = 0
    /\ faults = 0
    /\ outbox = {}
    /\ handed = {}
    /\ res = Result("none", "", {})
    /\ plain = {}
    /\ revoked = {}
    /\ resets = <<>>
    /\ inflight = [c \in Callers |-> Idle]

\* a call that returns err and leaves every table as it was
Fail(op, err) ==
    /\ res' = Result(op, err, {})
    /\ UNCHANGED <<inflight, accounts, profiles, redis, clock, ticks, uuidCount, saltCount,
                   faults, outbox, handed, plain, revoked, resets>>

\* the same, where it is a failing collaborator that made the call return
Fault(op, err) ==
    /\ faults < MaxFaults
    /\ faults' = faults + 1
    /\ res' = Result(op, err, {})
    /\ UNCHANGED <<inflight, accounts, profiles, redis, clock, ticks, uuidCount, saltCount,
                   outbox, handed, plain, revoked, resets>>

\* the password an account was last given
SetPlain(accountID, password) ==
    {e \in plain : e.AccountID # accountID}
        \cup {[AccountID |-> accountID, Password |-> password]}

IsPlain(account, password) ==
    [AccountID |-> account.AccountID, Password |-> password] \in plain

----------------------------------------------------------------------------
(* AuthUsecase.generateSalt, AuthUsecase.SignUp *)

generateSalt == Salt(saltCount + 1)

\* "hash": bcrypt.GenerateFromPassword returns an error (its own read of
\* crypto/rand fails, or the x/crypto of the build refuses a long input)
SignUpFaults ==
    {"none", "entropy", "hash", "insert_account", "insert_profile", "mail"}

\* lines 84-108: what SignUp returns before it writes, "" when it inserts
SignUpCheck(email, fault) ==
    IF fault = "entropy" THEN "GSA00"
    ELSE IF fault = "hash" THEN "HPA00"
    ELSE IF fault = "insert_account" THEN "IA05"
    ELSE IF IsDuplicateEntry(email) THEN "IA03"
    ELSE ""

\* a sign-up that takes the account back when the mail cannot be sent
SignUpRollsBack(inserted, fault) == IF fault = "mail" THEN {} ELSE {inserted}

\* lines 110-127: what stays of the insert when a later step fails
SignUpKeeps(inserted, fault) == {inserted}

SignUp(email, password, fullName, fault) ==
    LET salt == generateSalt
        \* uuids and salts that end up nowhere are not counted: they are never
        \* seen again
        tokenUUID == uuidCount + 1
        accountUUID == uuidCount + 2
        emailToken == CreateToken(email, Now + EmailTokenLifetime, tokenUUID,
                                  NoUUID, NoUUID, NoClaim)
        inserted == Account(accountUUID, email, hashPassword(password, salt),
                            salt, emailToken, FALSE, BlankToken)
        err == SignUpCheck(email, fault)
    IN
    IF err = "IA03" THEN Fail("SignUp", err)
    ELSE IF err # "" THEN Fault("SignUp", err)
    ELSE
        /\ uuidCount + 2 <= MaxUUID
        /\ fault # "none" => faults < MaxFaults
        /\ faults' = IF fault = "none" THEN faults ELSE faults + 1
        /\ accounts' = accounts \cup SignUpKeeps(inserted, fault)
        /\ plain' = SetPlain(accountUUID, password)
        /\ uuidCount' = uuidCount + 2
        /\ saltCount' = saltCount + 1
        /\ profiles' = IF fault = "insert_profile" THEN profiles
                       ELSE profiles \cup {[AccountID |-> accountUUID,
                                            FullName |-> fullName]}
        /\ outbox' = IF fault = "none"
                     THEN outbox \cup {[to |-> email, token |-> emailToken]}
                     ELSE outbox
        /\ res' = Result("SignUp",
                         CASE fault = "insert_profile" -> "IP00"
                           [] fault = "mail" -> "MAIL"
                           [] OTHER -> "",
                         {})
        /\ UNCHANGED <<inflight, redis, clock, ticks, handed, revoked, resets>>

----------------------------------------------------------------------------
(* AuthUsecase.createTokenPair, as the tail of Login and RefreshToken *)

PairFaults == {"redis_set_access", "redis_set_refresh"}

\* a generator that hands out the same ids again
ReusedUUID(k) == k

\* the k-th uuid.New() of a call: none of those in use
NewUUID(k) == uuidCount + k

\* a pair whose refresh token is given the lifetime of an access token
TokenPairShortLived(account, profile) ==
    LET rtExp == Now + AccessTokenLifetime
    IN  [AccessToken |-> CreateToken(account.Email, Now + AccessTokenLifetime,
                                     account.AccountID, NewUUID(1), NoUUID,
                                     profile.FullName),
         RefreshToken |-> CreateToken(NoClaim, rtExp, account.AccountID, NoUUID,
                                      NewUUID(2), NoClaim),
         RefreshTokenExpTime |-> rtExp]

TokenPair(account, profile) ==
    LET rtExp == Now + RefreshTokenLifetime
    IN  [AccessToken |-> CreateToken(account.Email, Now + AccessTokenLifetime,
                                     account.AccountID, NewUUID(1), NoUUID,
                                     profile.FullName),
         RefreshToken |-> CreateToken(NoClaim, rtExp, account.AccountID, NoUUID,
                                      NewUUID(2), NoClaim),
         RefreshTokenExpTime |-> rtExp]

\* a createTokenPair that registers the refresh session id first
createTokenPairRefreshFirst(op, account, profile, fault) ==
    LET token == TokenPair(account, profile)
        withRefresh == RedisSet(redis, token.RefreshToken.refresh_uuid,
                                token.RefreshToken, token.RefreshToken.exp)
        withBoth == RedisSet(withRefresh, token.AccessToken.access_uuid,
                             token.AccessToken, token.AccessToken.exp)
    IN
    IF fault = "redis_set_refresh" THEN Fault(op, "REDIS")
    ELSE
        /\ uuidCount + 2 <= MaxUUID
        /\ fault # "none" => faults < MaxFaults
        /\ faults' = IF fault = "none" THEN faults ELSE faults + 1
        /\ uuidCount' = uuidCount + 2
        /\ redis' = IF fault = "redis_set_access" THEN withRefresh ELSE withBoth
        /\ handed' = IF fault = "redis_set_access" THEN handed
                     ELSE handed \cup {token}
        /\ res' = IF fault = "redis_set_access" THEN Result(op, "REDIS", {})
                  ELSE Result(op, "", {token})
        /\ UNCHANGED <<inflight, accounts, profiles, clock, ticks, saltCount, outbox, plain,
                       revoked, resets>>

createTokenPair(op, account, profile, fault) ==
    LET token == TokenPair(account, profile)
        withAccess == RedisSet(redis, token.AccessToken.access_uuid,
                               token.AccessToken, token.AccessToken.exp)
        withBoth == RedisSet(withAccess, token.RefreshToken.refresh_uuid,
                             token.RefreshToken, token.RefreshToken.exp)
    IN
    IF fault = "redis_set_access" THEN Fault(op, "REDIS")
    ELSE
        /\ uuidCount + 2 <= MaxUUID
        /\ fault # "none" => faults < MaxFaults
        /\ faults' = IF fault = "none" THEN faults ELSE faults + 1
        /\ uuidCount' = uuidCount + 2
        /\ redis' = IF fault = "redis_set_refresh" THEN withAccess ELSE withBoth
        /\ handed' = IF fault = "redis_set_refresh" THEN handed
                     ELSE handed \cup {token}
        /\ res' = IF fault = "redis_set_refresh" THEN Result(op, "REDIS", {})
                  ELSE Result(op, "", {token})
        /\ UNCHANGED <<inflight, accounts, profiles, clock, ticks, saltCount, outbox, plain,
                       revoked, resets>>

----------------------------------------------------------------------------
(* AuthUsecase.Login *)

LoginFaults == {"none", "get_account", "get_profile"} \cup PairFaults

\* a Login that does not look at the verified flag
LoginCheckUngated(password, regAccount) ==
    IF ~comparePassword(password, regAccount.Salt, regAccount.Password) THEN "LGU03"
    ELSE ""

\* lines 46-61: what Login returns for the row it read, "" when it goes on
LoginCheck(password, regAccount) ==
    IF ~comparePassword(password, regAccount.Salt, regAccount.Password) THEN "LGU03"
    ELSE IF ~regAccount.IsVerified THEN "LGU04"
    ELSE ""

Login(email, password, fault) ==
    LET found == GetAccount(AccountFilter(email, NoUUID))
    IN
    IF fault = "get_account" THEN Fault("Login", "GA02_DB")
    ELSE IF found = {} THEN Fail("Login", "GA02_NOROWS")
    ELSE \E regAccount \in found :
        IF LoginCheck(password, regAccount) # ""
            THEN Fail("Login", LoginCheck(password, regAccount))
        ELSE IF fault = "get_profile" THEN Fault("Login", "GP_DB")
        ELSE IF GetProfile(regAccount.AccountID) = {} THEN Fail("Login", "GP_NOROWS")
        ELSE \E regProfile \in GetProfile(regAccount.AccountID) :
                createTokenPair("Login", regAccount, regProfile, fault)

----------------------------------------------------------------------------
(* AuthUsecase.Login served to several callers at once: one step for each  *)
(* access to the tables, the uuid generator and the session store          *)

\* caller c has reached pc
Proceed(c, pc, regAccount, regProfile, token) ==
    /\ inflight' = [inflight EXCEPT ![c] = Call(pc, regAccount, regProfile, token)]
    /\ UNCHANGED <<accounts, profiles, redis, clock, ticks, uuidCount, saltCount,
                   faults, outbox, handed, res, plain, revoked, resets>>

\* lines 40-61: GetAccount, comparePassword, the verified flag
LoginGetAccount(c, email, password) ==
    LET found == GetAccount(AccountFilter(email, NoUUID))
    IN
    /\ inflight[c] = Idle
    /\ IF found = {} THEN Fail("Login", "GA02_NOROWS")
       ELSE \E regAccount \in found :
            IF LoginCheck(password, regAccount) # ""
                THEN Fail("Login", LoginCheck(password, regAccount))
            ELSE Proceed(c, "get_profile", {regAccount}, {}, {})

\* lines 63-67: GetProfile
LoginGetProfile(c) ==
    /\ inflight[c].pc = "get_profile"
    /\ \E regAccount \in inflight[c].regAccount :
        IF GetProfile(regAccount.AccountID) = {}
        THEN /\ inflight' = [inflight EXCEPT ![c] = Idle]
             /\ res' = Result("Login", "GP_NOROWS", {})
             /\ UNCHANGED <<accounts, profiles, redis, clock, ticks, uuidCount,
                            saltCount, faults, outbox, handed, plain, revoked,
                            resets>>
        ELSE \E regProfile \in GetProfile(regAccount.AccountID) :
                Proceed(c, "mint", {regAccount}, {regProfile}, {})

\* lines 381-401: the claims, with two new uuids and the time of the call
LoginMint(c) ==
    /\ inflight[c].pc = "mint"
    /\ uuidCount + 2 <= MaxUUID
    /\ \E regAccount \in inflight[c].regAccount,
          regProfile \in inflight[c].regProfile :
        /\ inflight' = [inflight EXCEPT ![c] =
                Call("set_access", {regAccount}, {regProfile},
                     {TokenPair(regAccount, regProfile)})]
        /\ uuidCount' = uuidCount + 2
        /\ UNCHANGED <<accounts, profiles, redis, clock, ticks, saltCount, faults,
                       outbox, handed, res, plain, revoked, resets>>

\* line 403: RedisHelper.Set of the access session id
LoginSetAccess(c) ==
    /\ inflight[c].pc = "set_access"
    /\ \E token \in inflight[c].token :
        /\ redis' = RedisSet(redis, token.AccessToken.access_uuid,
                             token.AccessToken, token.AccessToken.exp)
        /\ inflight' = [inflight EXCEPT ![c].pc = "set_refresh"]
        /\ UNCHANGED <<accounts, profiles, clock, ticks, uuidCount, saltCount,
                       faults, outbox, handed, res, plain, revoked, resets>>

\* lines 408-413 and 74: RedisHelper.Set of the refresh session id, return
LoginSetRefresh(c) ==
    /\ inflight[c].pc = "set_refresh"
    /\ \E token \in inflight[c].token :
        /\ redis' = RedisSet(redis, token.RefreshToken.refresh_uuid,
                             token.RefreshToken, token.RefreshToken.exp)
        /\ handed' = handed \cup {token}
        /\ res' = Result("Login", "", {token})
        /\ inflight' = [inflight EXCEPT ![c] = Idle]
        /\ UNCHANGED <<accounts, profiles, clock, ticks, uuidCount, saltCount,
                       faults, outbox, plain, revoked, resets>>

----------------------------------------------------------------------------
(* AuthUsecase.VerifyEmail *)

VerifyFaults == {"none", "get_account", "update_verified"}

\* a VerifyEmail that does not look at the token's expiry
VerifyCheckAnyTime(token, clk) ==
    IF token.sig # "secret" THEN "VEA00"
    ELSE IF token.email = NoClaim THEN "PANIC"
    ELSE ""

\* lines 175-191: what VerifyEmail returns before it reads the account
VerifyCheck(token, clk) ==
    IF ParseToken(token, clk \div 2) # "" THEN "VEA00"
    \* payload["email"].(string) on a token without that claim
    ELSE IF token.email = NoClaim THEN "PANIC"
    ELSE IF IsExpired(token, clk) THEN "VEA02"
    ELSE ""

VerifyEmail(token, fault) ==
    LET found == GetAccount(AccountFilter(token.email, NoUUID))
    IN
    IF VerifyCheck(token, clock) # "" THEN Fail("VerifyEmail", VerifyCheck(token, clock))
    ELSE IF fault = "get_account" THEN Fault("VerifyEmail", "GA02_DB")
    ELSE IF found = {} THEN Fail("VerifyEmail", "GA02_NOROWS")
    ELSE IF fault = "update_verified" THEN Fault("VerifyEmail", "UIV03")
    ELSE \E account \in found :
        /\ accounts' = UpdateIsVerified(account.AccountID, TRUE)
        /\ res' = Result("VerifyEmail", "", {})
        /\ UNCHANGED <<inflight, profiles, redis, clock, ticks, uuidCount, saltCount, faults,
                       outbox, handed, plain, revoked, resets>>

----------------------------------------------------------------------------
(* AuthUsecase.ResetPassword *)

ResetFaults == {"none", "get_account", "update_token", "mail"}

\* lines 211-216: the token depends on the e-mail and the second only
ResetToken(email, now) ==
    CreateToken(email, now + ResetTokenLifetime, NoUUID, NoUUID, NoUUID, NoClaim)

ResetPassword(email, fault) ==
    LET token == ResetToken(email, Now)
        found == GetAccount(AccountFilter(email, NoUUID))
    IN
    \* any failure of GetAccount leaves account nil
    IF fault = "get_account" THEN Fault("ResetPassword", "RPA00")
    ELSE IF found = {} THEN Fail("ResetPassword", "RPA00")
    ELSE \E account \in found :
        IF ~account.IsVerified THEN Fail("ResetPassword", "RPA01")
        ELSE IF fault = "update_token" THEN Fault("ResetPassword", "UPT03")
        ELSE
            /\ IF fault = "none" THEN Len(resets) < MaxResets ELSE faults < MaxFaults
            /\ faults' = IF fault = "none" THEN faults ELSE faults + 1
            /\ accounts' = UpdatePasswordToken(accounts,
                               [AccountID |-> account.AccountID, PasswordToken |-> token])
            /\ resets' = IF fault = "mail" THEN resets
                         ELSE Append(resets, [AccountID |-> account.AccountID,
                                              token |-> token])
            /\ res' = Result("ResetPassword", IF fault = "mail" THEN "MAIL" ELSE "", {})
            /\ UNCHANGED <<inflight, profiles, redis, clock, ticks, uuidCount, saltCount,
                           outbox, handed, plain, revoked>>

----------------------------------------------------------------------------
(* AuthUsecase.ChangePassword *)

ChangeFaults ==
    {"none", "get_account", "entropy", "hash", "update_password", "update_token"}

\* a ChangePassword that accepts any token that parses
TokenMatchesAny(token, account) == TRUE

\* line 285: the presented string against the one on file
TokenMatches(token, account) == token = account.PasswordToken

\* lines 257-273: what ChangePassword returns before it reads the account
ChangeCheck(token, clk) ==
    IF ParseToken(token, clk \div 2) # "" THEN "CPW00"
    \* payload["email"].(string) on a token without that claim
    ELSE IF token.email = NoClaim THEN "PANIC"
    ELSE IF IsExpired(token, clk) THEN "CPW01"
    ELSE ""

\* a ChangePassword that leaves the consumed token on file
KeptPasswordToken(account) == account.PasswordToken

\* lines 306-309: the value the consumed token is replaced by
ClearedPasswordToken(account) == BlankToken

ChangePassword(token, password, fault) ==
    LET found == GetAccount(AccountFilter(token.email, NoUUID))
    IN
    IF ChangeCheck(token, clock) # "" THEN Fail("ChangePassword", ChangeCheck(token, clock))
    ELSE IF fault = "get_account" THEN Fault("ChangePassword", "CPW02")
    ELSE IF found = {} THEN Fail("ChangePassword", "CPW02")
    ELSE \E account \in found :
        IF ~TokenMatches(token, account) THEN Fail("ChangePassword", "CPW03")
        ELSE IF fault = "entropy" THEN Fault("ChangePassword", "GSA00")
        ELSE IF fault = "hash" THEN Fault("ChangePassword", "HPA00")
        ELSE IF fault = "update_password" THEN Fault("ChangePassword", "USP03")
        ELSE
            LET salt == generateSalt
                changed == UpdateSaltAndPassword(accounts,
                               [AccountID |-> account.AccountID, Salt |-> salt,
                                Password |-> hashPassword(password, salt)])
            IN
            /\ fault # "none" => faults < MaxFaults
            /\ faults' = IF fault = "none" THEN faults ELSE faults + 1
            /\ accounts' = IF fault = "update_token" THEN changed
                           ELSE UpdatePasswordToken(changed,
                                    [AccountID |-> account.AccountID,
                                     PasswordToken |-> ClearedPasswordToken(account)])
            /\ plain' = SetPlain(account.AccountID, password)
            /\ saltCount' = saltCount + 1
            /\ res' = Result("ChangePassword",
                             IF fault = "update_token" THEN "UPT03" ELSE "", {})
            /\ UNCHANGED <<inflight, profiles, redis, clock, ticks, uuidCount, outbox, handed,
                           revoked, resets>>

----------------------------------------------------------------------------
(* AuthUsecase.RefreshToken *)

RefreshFaults == {"none", "redis_get", "get_account", "get_profile"} \cup PairFaults

\* a RefreshToken that does not consult the session store
RefreshCheckStoreless(refreshToken, now, found) ==
    IF ParseToken(refreshToken, now) = "invalid" THEN "JWT_INVALID"
    ELSE IF ParseToken(refreshToken, now) = "expired" THEN "JWT_EXPIRED"
    ELSE IF refreshToken.refresh_uuid = NoUUID THEN "PANIC"
    ELSE ""

\* lines 133-150: what RefreshToken returns before it reads the account;
\* found tells whether the session store still holds the token's session id
RefreshCheck(refreshToken, now, found) ==
    IF ParseToken(refreshToken, now) = "invalid" THEN "JWT_INVALID"
    ELSE IF ParseToken(refreshToken, now) = "expired" THEN "JWT_EXPIRED"
    \* mapClaims["refresh_uuid"].(string) on a token without that claim
    ELSE IF refreshToken.refresh_uuid = NoUUID THEN "PANIC"
    ELSE IF ~found THEN "RTU00"
    ELSE ""

RefreshToken(refreshToken, fault) ==
    LET found == GetAccount(AccountFilter("", refreshToken.account_id))
    IN
    IF RefreshCheck(refreshToken, Now, TRUE) # ""
        THEN Fail("RefreshToken", RefreshCheck(refreshToken, Now, TRUE))
    ELSE
    \* rtRedis, _ := Get(...): a failing Get reads as no entry
    IF fault = "redis_get"
        THEN Fault("RefreshToken", RefreshCheck(refreshToken, Now, FALSE))
    ELSE IF RedisGet(refreshToken.refresh_uuid) = {}
        THEN Fail("RefreshToken", RefreshCheck(refreshToken, Now, FALSE))
    ELSE IF fault = "get_account" THEN Fault("RefreshToken", "GA02_DB")
    ELSE IF found = {} THEN Fail("RefreshToken", "GA02_NOROWS")
    ELSE \E account \in found :
        IF fault = "get_profile" THEN Fault("RefreshToken", "GP_DB")
        ELSE IF GetProfile(account.AccountID) = {} THEN Fail("RefreshToken", "GP_NOROWS")
        ELSE \E profile \in GetProfile(account.AccountID) :
                createTokenPair("RefreshToken", account, profile, fault)

----------------------------------------------------------------------------
(* AuthUsecase.SignOut *)

SignOutFaults == {"none", "redis_del_access", "redis_del_refresh"}

\* a SignOut that stops after the access session id
SignOutAccessOnly(accessToken, refreshToken, fault) ==
    IF accessToken.access_uuid = NoUUID THEN Fail("SignOut", "PANIC")
    ELSE IF fault = "redis_del_access" THEN Fault("SignOut", "SOU00")
    ELSE
        /\ fault = "none"
        /\ redis' = RedisDelete(redis, accessToken.access_uuid)
        /\ revoked' = revoked \cup {refreshToken}
        /\ res' = Result("SignOut", "", {})
        /\ UNCHANGED <<inflight, accounts, profiles, clock, ticks, uuidCount,
                       saltCount, faults, outbox, handed, plain, resets>>

\* a SignOut that ends every session of the account
SignOutEverywhere(accessToken, refreshToken, fault) ==
    /\ fault = "none"
    /\ redis' = {x \in redis : x.value.account_id # accessToken.account_id}
    /\ revoked' = revoked \cup {refreshToken}
    /\ res' = Result("SignOut", "", {})
    /\ UNCHANGED <<inflight, accounts, profiles, clock, ticks, uuidCount,
                   saltCount, faults, outbox, handed, plain, resets>>

\* a SignOut that goes on to the refresh session id when deleting the
\* access session id has failed
SignOutKeepsGoing(accessToken, refreshToken, fault) ==
    IF accessToken.access_uuid = NoUUID THEN Fail("SignOut", "PANIC")
    ELSE
        /\ fault = "redis_del_access"
        /\ faults < MaxFaults
        /\ faults' = faults + 1
        /\ redis' = RedisDelete(redis, refreshToken.refresh_uuid)
        /\ res' = Result("SignOut", "SOU00", {})
        /\ UNCHANGED <<inflight, accounts, profiles, clock, ticks, uuidCount,
                       saltCount, outbox, handed, plain, revoked, resets>>

SignOut(accessToken, refreshToken, fault) ==
    LET atDeleted == RedisDelete(redis, accessToken.access_uuid)
        err == CASE refreshToken.refresh_uuid = NoUUID -> "PANIC"
                 [] fault = "redis_del_refresh" -> "SOU01"
                 [] OTHER -> ""
    IN
    \* atClaims["access_uuid"].(string) on a token without that claim
    IF accessToken.access_uuid = NoUUID THEN Fail("SignOut", "PANIC")
    ELSE IF fault = "redis_del_access" THEN Fault("SignOut", "SOU00")
    ELSE
        /\ err = "SOU01" => faults < MaxFaults
        /\ faults' = IF err = "SOU01" THEN faults + 1 ELSE faults
        /\ redis' = IF err = "" THEN RedisDelete(atDeleted, refreshToken.refresh_uuid)
                    ELSE atDeleted
        /\ revoked' = IF err = "" THEN revoked \cup {refreshToken} ELSE revoked
        /\ res' = Result("SignOut", err, {})
        /\ UNCHANGED <<inflight, accounts, profiles, clock, ticks, uuidCount, saltCount,
                       outbox, handed, plain, resets>>

----------------------------------------------------------------------------
(* Time passing: the clock advances and the store drops what has run out *)

Tick(d) ==
    /\ ticks < MaxTicks
    /\ ticks' = ticks + 1
    /\ clock' = clock + d
    /\ redis' = RedisLive(redis, clock + d)
    /\ UNCHANGED <<inflight, accounts, profiles, uuidCount, saltCount, faults, outbox,
                   handed, res, plain, revoked, resets>>

----------------------------------------------------------------------------
(* The callers: whoever holds a mailed or returned token may present it,   *)
(* or a re-signed or damaged copy of it                                    *)

AccessTokens == {p.AccessToken : p \in handed}
RefreshTokens == {p.RefreshToken : p \in handed}
ResetTokens == {resets[i].token : i \in 1..Len(resets)}
MailedTokens == {m.token : m \in outbox} \cup ResetTokens
KnownTokens == MailedTokens \cup AccessTokens \cup RefreshTokens

PresentableTokens ==
    KnownTokens \cup {Forged(t) : t \in MailedTokens} \cup {CorruptToken, BlankToken}

NoFault == {"none"}

\* every collaborator works
Next ==
    \/ \E e \in Emails, p \in Passwords, n \in FullNames, f \in NoFault :
            SignUp(e, p, n, f)
    \/ \E e \in Emails, p \in Passwords, f \in NoFault : Login(e, p, f)
    \/ \E t \in PresentableTokens, f \in NoFault : VerifyEmail(t, f)
    \/ \E e \in Emails, f \in NoFault : ResetPassword(e, f)
    \/ \E t \in PresentableTokens, p \in Passwords, f \in NoFault :
            ChangePassword(t, p, f)
    \/ \E t \in PresentableTokens, f \in NoFault : RefreshToken(t, f)
    \/ \E a \in AccessTokens, r \in RefreshTokens, f \in NoFault : SignOut(a, r, f)
    \/ \E d \in Jumps : Tick(d)

Spec == Init /\ [][Next]_vars

\* signing up and signing in while collaborators may fail, MaxFaults times
NextFaults ==
    \/ \E e \in Emails, p \in Passwords, n \in FullNames, f \in SignUpFaults :
            SignUp(e, p, n, f)
    \/ \E t \in PresentableTokens, f \in VerifyFaults : VerifyEmail(t, f)
    \/ \E e \in Emails, p \in Passwords, f \in LoginFaults : Login(e, p, f)
    \/ \E d \in Jumps : Tick(d)

SpecFaults == Init /\ [][NextFaults]_vars

\* one password is enough where the calls differ by what fails
OutagePasswords == {PwShort}

\* every operation, given tokens as they were mailed or returned, while
\* collaborators may fail, MaxFaults times
NextOutage ==
    \/ \E e \in Emails, p \in OutagePasswords, n \in FullNames, f \in SignUpFaults :
            SignUp(e, p, n, f)
    \/ \E e \in Emails, p \in OutagePasswords, f \in LoginFaults : Login(e, p, f)
    \/ \E t \in KnownTokens, f \in VerifyFaults : VerifyEmail(t, f)
    \/ \E e \in Emails, f \in ResetFaults : ResetPassword(e, f)
    \/ \E t \in KnownTokens, p \in OutagePasswords, f \in ChangeFaults :
            ChangePassword(t, p, f)
    \/ \E t \in KnownTokens, f \in RefreshFaults : RefreshToken(t, f)
    \/ \E a \in AccessTokens, r \in RefreshTokens, f \in SignOutFaults :
            SignOut(a, r, f)
    \/ \E d \in Jumps : Tick(d)

SpecOutage == Init /\ [][NextOutage]_vars

\* a Login takes seconds, not days
LoginJumps == {2}

\* two callers logging in at the same time, each signing out its own pair
NextLogins ==
    \/ \E e \in Emails, p \in Passwords, n \in FullNames, f \in NoFault :
            SignUp(e, p, n, f)
    \/ \E t \in KnownTokens, f \in NoFault : VerifyEmail(t, f)
    \/ \E c \in Callers, e \in Emails, p \in Passwords : LoginGetAccount(c, e, p)
    \/ \E c \in Callers : LoginGetProfile(c)
    \/ \E c \in Callers : LoginMint(c)
    \/ \E c \in Callers : LoginSetAccess(c)
    \/ \E c \in Callers : LoginSetRefresh(c)
    \/ \E pair \in handed, f \in NoFault :
            SignOut(pair.AccessToken, pair.RefreshToken, f)
    \/ \E t \in RefreshTokens, f \in NoFault : RefreshToken(t, f)
    \/ \E d \in LoginJumps : Tick(d)

SpecLogins == Init /\ [][NextLogins]_vars

----------------------------------------------------------------------------
(* Properties of the credential lifecycle *)

\* the account a token's e-mail claim names
AccountsOf(token) == {a \in accounts : a.Email = token.email}

\* the latest reset mail, and the ones a later reset for the same account
\* followed
LastReset == resets[Len(resets)]
EarlierResets ==
    {i \in 1..Len(resets) :
        \E j \in (i + 1)..Len(resets) : resets[j].AccountID = resets[i].AccountID}

\* the step is a call of op
Called(op) == res'.op = op

\* C1: Login with the correct password on an account whose verified flag is
\* false returns EmailNotVerified and no token pair, and registers no access
\* or refresh session id in the session store.
C1_UnverifiedLoginRefused ==
    [][Called("Login") => \A e \in Emails, p \in Passwords :
        (/\ Login(e, p, "none")
         /\ \E a \in accounts : a.Email = e /\ ~a.IsVerified /\ IsPlain(a, p))
        => /\ ErrKind(res'.err) = "EmailNotVerified"
           /\ res'.out = {}
           /\ redis' = redis
           /\ handed' = handed]_vars

\* a Login was refused for the missing verification, with nothing in the store
C1_Witness ==
    /\ res = Result("Login", "LGU04", {})
    /\ \E a \in accounts : ~a.IsVerified
    /\ redis = {}

\* C2: once an account is signed up and verified, Login with its password
\* succeeds and returns a pair whose two session ids are both in the session
\* store, and Login with any other password returns Unauthorized and registers
\* no session.
C2_OnlyThePasswordLogsIn ==
    [][Called("Login") => \A e \in Emails, p \in Passwords :
        (/\ Login(e, p, "none")
         /\ \E a \in accounts : a.Email = e /\ a.IsVerified)
        => \A a \in accounts : a.Email = e =>
            IF IsPlain(a, p)
            THEN /\ res'.err = ""
                 /\ \E pair \in res'.out :
                        {pair.AccessToken.access_uuid,
                         pair.RefreshToken.refresh_uuid}
                            \subseteq {x.key : x \in redis'}
            ELSE /\ ErrKind(res'.err) = "Unauthorized"
                 /\ res'.out = {}
                 /\ redis' = redis]_vars

\* C3: after a SignOut that returned nil, every later RefreshToken with the
\* refresh token it was given returns TokenExpired and issues no token pair,
\* whatever was called in between.
C3_SignedOutRefreshRefused ==
    [][Called("RefreshToken") => \A t \in revoked :
        RefreshToken(t, "none")
        => /\ ErrKind(res'.err) = "TokenExpired"
           /\ res'.out = {}
           /\ handed' = handed
           /\ redis' = redis]_vars

\* a RefreshToken found no session for a token that was signed out
C3_Witness ==
    /\ res = Result("RefreshToken", "RTU00", {})
    /\ \E t \in revoked : RedisGet(t.refresh_uuid) = {}

\* C4, as stated: once ResetPassword has succeeded twice for an account,
\* ChangePassword with the earlier token (unexpired) returns InvalidToken and
\* changes nothing.
C4_EarlierTokenRefused ==
    [][Called("ChangePassword") => \A i \in EarlierResets, p \in Passwords :
        (/\ ChangeCheck(resets[i].token, clock) = ""
         /\ ChangePassword(resets[i].token, p, "none"))
        => /\ ErrKind(res'.err) = "InvalidToken"
           /\ accounts' = accounts]_vars

\* C4, amended: a ResetPassword that returns nil leaves the token it mailed on
\* file; from then on ChangePassword with an earlier reset token of the account
\* that is a different string (unexpired) returns InvalidToken and changes
\* nothing, and ChangePassword with the latest token, while it is on file and
\* unexpired, returns nil and sets the password.
C4_DifferentEarlierTokenRefused ==
    [][/\ Called("ResetPassword") => \A e \in Emails :
            (ResetPassword(e, "none") /\ res'.err = "")
            => /\ resets' # <<>>
               /\ \A a \in accounts' :
                    a.Email = e => a.PasswordToken = resets'[Len(resets')].token
       /\ Called("ChangePassword") => \A i \in EarlierResets, p \in Passwords :
            (/\ ChangeCheck(resets[i].token, clock) = ""
             /\ resets[i].token # LastReset.token
             /\ ChangePassword(resets[i].token, p, "none"))
            => /\ ErrKind(res'.err) = "InvalidToken"
               /\ accounts' = accounts
               /\ plain' = plain
       /\ Called("ChangePassword") => \A p \in Passwords :
            (/\ resets # <<>>
             /\ ChangeCheck(LastReset.token, clock) = ""
             /\ \E a \in accounts : /\ a.AccountID = LastReset.AccountID
                                    /\ a.PasswordToken = LastReset.token
             /\ ChangePassword(LastReset.token, p, "none"))
            => /\ res'.err = ""
               /\ \A a \in accounts' :
                    a.AccountID = LastReset.AccountID
                    => comparePassword(p, a.Salt, a.Password)]_vars

\* two resets a second apart, and the earlier token was refused
C4_Witness ==
    /\ res = Result("ChangePassword", "CPW03", {})
    /\ Len(resets) = 2
    /\ resets[1].AccountID = resets[2].AccountID
    /\ resets[1].token # resets[2].token
    /\ \E a \in accounts : a.PasswordToken = resets[2].token

\* C5: ChangePassword with a token that parses and has not expired but is not
\* the string on file for the account returns InvalidToken and leaves the
\* account's hash, salt and PasswordToken as they were.
C5_MismatchRefused ==
    [][Called("ChangePassword") => \A t \in PresentableTokens, p \in Passwords :
        (/\ ChangeCheck(t, clock) = ""
         /\ \E a \in AccountsOf(t) : t # a.PasswordToken
         /\ ChangePassword(t, p, "none"))
        => /\ ErrKind(res'.err) = "InvalidToken"
           /\ accounts' = accounts
           /\ plain' = plain]_vars

\* a ChangePassword was refused for the mismatch while a reset token is on file
C5_Witness ==
    /\ res = Result("ChangePassword", "CPW03", {})
    /\ \E a \in accounts : a.PasswordToken \in ResetTokens

\* C6: a ChangePassword that returns nil leaves the account's PasswordToken
\* blank, and while it is blank ChangePassword with any token that parses and
\* has not expired, the consumed one included, returns InvalidToken and
\* changes neither hash nor salt.
C6_TokenSingleUse ==
    [][Called("ChangePassword") => \A t \in PresentableTokens, p \in Passwords :
        /\ (res'.err = "" /\ ChangePassword(t, p, "none"))
           => \A a \in accounts' :
                a.Email = t.email => a.PasswordToken = BlankToken
        /\ (/\ ChangeCheck(t, clock) = ""
            /\ \E a \in AccountsOf(t) : a.PasswordToken = BlankToken
            /\ ChangePassword(t, p, "none"))
           => /\ ErrKind(res'.err) = "InvalidToken"
              /\ accounts' = accounts]_vars

\* a password was changed, the token is blank, and a further ChangePassword
\* was refused
C6_Witness ==
    /\ res = Result("ChangePassword", "CPW03", {})
    /\ saltCount >= 2
    /\ resets # <<>>
    /\ \A a \in accounts : a.PasswordToken = BlankToken

\* C7: a correctly signed token whose expiry claim is in the past is accepted
\* by the parse, and VerifyEmail and ChangePassword given it return
\* TokenExpired, not InvalidToken, and change no account.
C7_ExpiredReportedExpired ==
    [][\A t \in KnownTokens, p \in Passwords :
        (/\ Called("VerifyEmail") \/ Called("ChangePassword")
         /\ t.email # NoClaim
         /\ t.exp < Now
         /\ VerifyEmail(t, "none") \/ ChangePassword(t, p, "none"))
        => /\ ParseToken(t, Now) = ""
           /\ ErrKind(res'.err) = "TokenExpired"
           /\ accounts' = accounts]_vars

\* C8: a token signed with another secret, or a damaged one, never parses and
\* never crashes the call: VerifyEmail and ChangePassword given it return
\* InvalidToken and leave every account as it was.
C8_BadSignatureInvalid ==
    [][\A t \in PresentableTokens, p \in Passwords :
        (/\ Called("VerifyEmail") \/ Called("ChangePassword")
         /\ t.sig # "secret"
         /\ VerifyEmail(t, "none") \/ ChangePassword(t, p, "none"))
        => /\ ParseToken(t, Now) = "invalid"
           /\ ErrKind(res'.err) = "InvalidToken"
           /\ accounts' = accounts]_vars

\* before any token has expired, a VerifyEmail was refused at the parse
C8_Witness ==
    /\ res = Result("VerifyEmail", "VEA00", {})
    /\ ticks = 0
    /\ accounts # {}

\* C9: SignUp with an e-mail that is in the account table returns
\* DuplicateEmail, which is not the kind a failing insert returns; no row of
\* account or profile is added or changed and no mail is sent.
C9_DuplicateEmailRefused ==
    [][Called("SignUp") => \A e \in Emails, p \in Passwords, n \in FullNames :
        /\ (SignUp(e, p, n, "none") /\ \E r \in accounts : r.Email = e)
           => /\ res'.err = "IA03"
              /\ ErrKind(res'.err) = "DuplicateEmail"
              /\ accounts' = accounts
              /\ profiles' = profiles
              /\ outbox' = outbox
        /\ SignUp(e, p, n, "insert_account")
           => /\ ErrKind(res'.err) = "Internal"
              /\ accounts' = accounts
              /\ profiles' = profiles
              /\ outbox' = outbox]_vars

\* a SignUp was refused as a duplicate
C9_Witness ==
    /\ res = Result("SignUp", "IA03", {})
    /\ Cardinality(accounts) = 1

\* C10: when the mail cannot be sent after account and profile were inserted,
\* SignUp returns an error and takes nothing back: the unverified account and
\* its profile stay, and a later SignUp with that e-mail returns
\* DuplicateEmail.
C10_NoRollbackAfterMailFailure ==
    [][Called("SignUp") => \A e \in Emails, p \in Passwords, n \in FullNames :
        /\ (SignUp(e, p, n, "mail") /\ ~\E r \in accounts : r.Email = e)
           => /\ res'.err # ""
              /\ res'.out = {}
              /\ outbox' = outbox
              /\ \E a \in accounts' :
                    /\ a.Email = e
                    /\ ~a.IsVerified
                    /\ \E q \in profiles' : q.AccountID = a.AccountID
        /\ (/\ SignUp(e, p, n, "none")
            /\ \E a \in accounts : a.Email = e /\ ~\E m \in outbox : m.to = e)
           => ErrKind(res'.err) = "DuplicateEmail"
        /\ \A a \in accounts : \E b \in accounts' : b.Email = a.Email]_vars

\* the mail of a sign-up failed, and the next sign-up was a duplicate
C10_Witness ==
    /\ res = Result("SignUp", "IA03", {})
    /\ outbox = {}
    /\ \E a \in accounts : \E q \in profiles : q.AccountID = a.AccountID

\* C11: VerifyEmail with a token that parses and has not expired, for an
\* account that is verified already, returns nil and leaves the account table
\* as it is; and any VerifyEmail that returns nil leaves the account verified
\* and every other field of every row untouched, so a second VerifyEmail
\* changes nothing the first has not.
C11_VerifyEmailIdempotent ==
    [][Called("VerifyEmail") => \A t \in PresentableTokens :
        /\ (/\ VerifyCheck(t, clock) = ""
            /\ \E a \in AccountsOf(t) : a.IsVerified
            /\ VerifyEmail(t, "none"))
           => /\ res'.err = ""
              /\ accounts' = accounts
        /\ (res'.err = "" /\ VerifyEmail(t, "none"))
           => /\ \A b \in accounts' : b.Email = t.email => b.IsVerified
              /\ {[b EXCEPT !.IsVerified = TRUE] : b \in accounts} = accounts'
              /\ {[b EXCEPT !.IsVerified = TRUE] : b \in accounts'} = accounts']_vars

\* a VerifyEmail returned nil for an account that had logged in before
C11_Witness ==
    /\ res = Result("VerifyEmail", "", {})
    /\ handed # {}
    /\ \A a \in accounts : a.IsVerified

C13_SignOutDeletesBoth ==
    [][Called("SignOut") => \A a \in AccessTokens, r \in RefreshTokens :
        /\ SignOut(a, r, "none")
           => /\ res'.err = ""
              /\ \A x \in redis' : x.key \notin {a.access_uuid, r.refresh_uuid}
              /\ redis' = {x \in redis :
                            x.key \notin {a.access_uuid, r.refresh_uuid}}
        /\ SignOut(a, r, "redis_del_access")
           => /\ ErrKind(res'.err) = "Internal"
              /\ redis' = redis
        /\ SignOut(a, r, "redis_del_refresh")
           => /\ ErrKind(res'.err) = "Internal"
              /\ redis' = {x \in redis : x.key # a.access_uuid}]_vars

\* the second delete of a SignOut failed: of a pair, the access session is
\* gone and the refresh session is still there
C13_Witness ==
    /\ res = Result("SignOut", "SOU01", {})
    /\ \E p \in handed :
        /\ RedisGet(p.AccessToken.access_uuid) = {}
        /\ RedisGet(p.RefreshToken.refresh_uuid) # {}

\* C14: a RefreshToken that returns nil has added exactly two entries to the
\* session store, under two ids that differ from each other and from every id
\* the store held, and has left the entry of the token it was given in place;
\* a returned refresh token that was not signed out and whose time to live
\* has not run out is accepted by RefreshToken, after a refresh as before.
C14_RefreshAddsTwoSessions ==
    [][Called("RefreshToken") => \A t \in RefreshTokens :
        /\ (res'.err = "" /\ RefreshToken(t, "none"))
           => \E pair \in res'.out :
                LET a == pair.AccessToken.access_uuid
                    r == pair.RefreshToken.refresh_uuid
                    held == {x.key : x \in redis}
                IN  /\ a # r
                    /\ a \notin held
                    /\ r \notin held
                    /\ redis \subseteq redis'
                    /\ Cardinality(redis' \ redis) = 2
                    /\ {x.key : x \in redis' \ redis} = {a, r}
                    /\ RedisGet(t.refresh_uuid) # {}
                    /\ RefreshCheck(t, Now,
                            \E x \in redis' : x.key = t.refresh_uuid) = ""
        /\ (/\ t \notin revoked
            /\ clock < 2 * t.exp
            /\ RefreshToken(t, "none"))
           => res'.err = ""]_vars

\* a RefreshToken returned a pair, and the store holds the two sessions of
\* the login and the two of the refresh
C14_Witness ==
    /\ res.op = "RefreshToken"
    /\ res.err = ""
    /\ Cardinality(handed) = 2
    /\ Cardinality(redis) = 4

\* C15: Login and RefreshToken store each session entry to live as long as
\* its own token: the entry expires at the token's expiry claim, 15 minutes
\* after the mint for the access token and an hour for the refresh token; an
\* entry is in the store only while its token is unexpired, the entry of a
\* refresh token that was not signed out is there for all that time, and
\* RefreshToken with a refresh token whose lifetime has run out finds no
\* entry, returns TokenExpired and hands out nothing.
C15_SessionLivesAsItsToken ==
    [][/\ (Called("Login") \/ Called("RefreshToken")) =>
            \A e \in Emails, p \in Passwords, t \in RefreshTokens :
            (Login(e, p, "none") \/ RefreshToken(t, "none")) =>
            \A pair \in res'.out :
                /\ pair.AccessToken.exp - Now = AccessTokenLifetime
                /\ pair.RefreshToken.exp - Now = RefreshTokenLifetime
                /\ [key |-> pair.AccessToken.access_uuid,
                    value |-> pair.AccessToken,
                    exp |-> pair.AccessToken.exp] \in redis'
                /\ [key |-> pair.RefreshToken.refresh_uuid,
                    value |-> pair.RefreshToken,
                    exp |-> pair.RefreshToken.exp] \in redis'
       /\ \A x \in redis' :
            /\ x.exp = x.value.exp
            /\ ~IsExpired(x.value, clock')
       /\ \A t \in RefreshTokens' :
            (t \notin revoked' /\ ~IsExpired(t, clock'))
            => \E x \in redis' : x.key = t.refresh_uuid /\ x.value = t
       /\ Called("RefreshToken") => \A t \in RefreshTokens :
            (IsExpired(t, clock) /\ RefreshToken(t, "none"))
            => /\ RedisGet(t.refresh_uuid) = {}
               /\ ErrKind(res'.err) = "TokenExpired"
               /\ res'.out = {}
               /\ redis' = redis]_vars

\* a day after a login its sessions are gone from the store, and RefreshToken
\* with its refresh token was refused as expired
C15_Witness ==
    /\ res.op = "RefreshToken"
    /\ ErrKind(res.err) = "TokenExpired"
    /\ handed # {}
    /\ revoked = {}
    /\ redis = {}
    /\ ticks = 1

\* C16: whenever a call of the account or profile repository, the session
\* store or the mail sender fails inside an operation, the operation returns
\* an error of that failure's kind, Internal, never nil and never another
\* kind.
C16_NoErrorSwallowed ==
    [][faults' # faults => ErrKind(res'.err) = "Internal"]_vars

\* C17: each operation writes the account table in one transaction, so a call
\* either leaves it as it was or leaves the whole of its change: a
\* ChangePassword never leaves a row with the new salt and hash and the
\* consumed reset token still on file.
C17_OneTransactionPerOperation ==
    [][Called("ChangePassword") =>
        \/ accounts' = accounts
        \/ \A b \in accounts' \ accounts : b.PasswordToken = BlankToken]_vars

\* the session ids of a returned pair
SessionIds(pair) == {pair.AccessToken.access_uuid, pair.RefreshToken.refresh_uuid}

\* C18: when two Login calls for the same account run at the same time, in
\* whatever order their reads and writes fall, each call given the right
\* credentials returns a pair; the session ids of the returned pairs are
\* pairwise distinct; and the two entries of every pair that was not signed
\* out are in the session store and its refresh token passes RefreshToken's
\* checks, whatever was signed out meanwhile.
C18_ConcurrentLoginsIndependent ==
    [][/\ \A c \in Callers :
            /\ \A e \in Emails, p \in Passwords :
                (/\ \E a \in accounts : a.Email = e /\ a.IsVerified /\ IsPlain(a, p)
                 /\ LoginGetAccount(c, e, p))
                => inflight'[c].pc = "get_profile"
            /\ LoginGetProfile(c) => inflight'[c].pc = "mint"
            /\ LoginSetRefresh(c)
                => /\ res'.err = ""
                   /\ res'.out # {}
                   /\ res'.out \subseteq handed'
       /\ \A p \in handed' :
            /\ Cardinality(SessionIds(p)) = 2
            /\ \A q \in handed' : p # q => SessionIds(p) \cap SessionIds(q) = {}
            /\ (p.RefreshToken \notin revoked' /\ ~IsExpired(p.AccessToken, clock'))
                => /\ SessionIds(p) \subseteq {x.key : x \in redis'}
                   /\ RefreshCheck(p.RefreshToken, clock' \div 2,
                        \E x \in redis' : x.key = p.RefreshToken.refresh_uuid) = ""]_vars

\* two logins overlapped: the call that drew its uuids first returned last,
\* and all four sessions are in the store
C18_Witness ==
    /\ res.op = "Login"
    /\ Cardinality(redis) = 4
    /\ \E p \in res.out, q \in handed :
            q.AccessToken.access_uuid > p.AccessToken.access_uuid

\* C19: a ChangePassword that returns nil ends the sessions of the account:
\* no session id of a pair returned for it before the change is left in the
\* session store.
C19_PasswordChangeEndsSessions ==
    [][(Called("ChangePassword") /\ res'.err = "") =>
        \A b \in accounts' \ accounts, p \in handed :
            p.RefreshToken.account_id = b.AccountID
            => SessionIds(p) \cap {x.key : x \in redis'} = {}]_vars

\* C20: comparePassword accepts, against the salt and hash hashPassword stored
\* for an account, the password the hash was derived from and no other
\* password.
C20_VerifyOnlyThePassword ==
    \A a \in accounts, p \in Passwords :
        comparePassword(p, a.Salt, a.Password) <=> IsPlain(a, p)

----------------------------------------------------------------------------
(* The token codec, taken by itself *)

\* the claim set a token was minted from: jwt.MapClaims with the keys the
\* minting call assigned (an absent key reads NoClaim / NoUUID)
MapClaims(tok) ==
    [email |-> tok.email, exp |-> tok.exp, account_id |-> tok.account_id,
     access_uuid |-> tok.access_uuid, refresh_uuid |-> tok.refresh_uuid,
     full_name |-> tok.full_name]

\* parseJWT: the claims decoded from the payload, and the error of
\* jwt.ParseWithClaims; a caller uses the claims only when the error is nil
parseJWT(tok, now) == [claims |-> MapClaims(tok), err |-> ParseToken(tok, now)]

\* C21: parsing a token the system minted (verification, reset, access or
\* refresh) with the secret it was minted with returns, without an error,
\* claims equal to the claims it was minted from.
C21_TokenRoundTrip ==
    \A t \in KnownTokens : parseJWT(t, Now) = [claims |-> MapClaims(t), err |-> ""]

----------------------------------------------------------------------------
(* The account repository, call by call: every mutation runs one statement  *)
(* in a transaction of its own (Begin, Prepare, Exec, Commit)               *)

RepoEmails == {"a@x.com", "b@x.com"}
\* the salt rows are inserted with, and the one an update writes
RepoSalts == {Salt(1)}
RepoNewSalts == {Salt(2)}
RepoNewPasswords == {PwLongA}
TxStages == {"none", "begin", "prepare", "exec", "commit"}

\* the INSERT of InsertAccount
InsertAccount(rows, account) == rows \cup {account}

\* the tag a mutation returns with when stage failAt fails: xx01 for Begin,
\* xx02 for Prepare, xx04 for Commit, and for Exec the tag the method has
TxTag(prefix, execTag, failAt) ==
    CASE failAt = "begin" -> prefix \o "01"
      [] failAt = "prepare" -> prefix \o "02"
      [] failAt = "exec" -> execTag
      [] failAt = "commit" -> prefix \o "04"
      [] OTHER -> ""

\* statements that take effect as they are executed, outside a transaction
Autocommit(rows, written, failAt) ==
    IF failAt \in {"none", "commit"} THEN written ELSE rows

\* the table after a transaction whose statement would leave it as written:
\* Begin failing starts nothing, Prepare and Exec failing are followed by
\* tx.Rollback(), a Commit that fails has committed nothing
Transaction(rows, written, failAt) ==
    LET executed == IF failAt \in {"begin", "prepare", "exec"} THEN rows ELSE written
        committed == failAt = "none"
    IN  IF committed THEN executed ELSE rows

\* a repository call: its transaction, and what it returns
RepoCall(op, written, tag, failAt) ==
    /\ failAt # "none" => faults < MaxFaults
    /\ faults' = IF failAt = "none" THEN faults ELSE faults + 1
    /\ accounts' = Transaction(accounts, written, failAt)
    /\ res' = Result(op, tag, {})

InsertAccountTx(email, password, salt, failAt) ==
    LET account == Account(NewUUID(1), email, hashPassword(password, salt), salt,
                           BlankToken, FALSE, BlankToken)
        \* error 1062 is an Exec that fails by itself
        stage == IF failAt = "none" /\ IsDuplicateEntry(email) THEN "exec" ELSE failAt
        tag == TxTag("IA", IF failAt = "none" THEN "IA03" ELSE "IA05", stage)
    IN
    /\ uuidCount + 1 <= MaxUUID
    /\ failAt # "none" => faults < MaxFaults
    /\ faults' = IF failAt = "none" THEN faults ELSE faults + 1
    /\ accounts' = Transaction(accounts, InsertAccount(accounts, account), stage)
    /\ res' = Result("InsertAccount", tag, {})
    /\ uuidCount' = IF tag = "" THEN uuidCount + 1 ELSE uuidCount
    /\ plain' = IF tag = "" THEN SetPlain(account.AccountID, password) ELSE plain
    /\ UNCHANGED <<inflight, profiles, redis, clock, ticks, saltCount, outbox,
                   handed, revoked, resets>>

UpdateIsVerifiedTx(accountId, isVerified, failAt) ==
    /\ RepoCall("UpdateIsVerified", UpdateIsVerified(accountId, isVerified),
                TxTag("UIV", "UIV03", failAt), failAt)
    /\ UNCHANGED <<inflight, profiles, redis, clock, ticks, uuidCount, saltCount,
                   outbox, handed, plain, revoked, resets>>

UpdateSaltAndPasswordTx(accountId, password, salt, failAt) ==
    LET account == [AccountID |-> accountId, Salt |-> salt,
                    Password |-> hashPassword(password, salt)]
    IN
    /\ RepoCall("UpdateSaltAndPassword", UpdateSaltAndPassword(accounts, account),
                TxTag("USP", "USP03", failAt), failAt)
    /\ plain' = IF failAt = "none" /\ \E r \in accounts : r.AccountID = accountId
                THEN SetPlain(accountId, password) ELSE plain
    /\ UNCHANGED <<inflight, profiles, redis, clock, ticks, uuidCount, saltCount,
                   outbox, handed, revoked, resets>>

UpdatePasswordTokenTx(accountId, token, failAt) ==
    /\ RepoCall("UpdatePasswordToken",
                UpdatePasswordToken(accounts, [AccountID |-> accountId,
                                               PasswordToken |-> token]),
                TxTag("UPT", "UPT03", failAt), failAt)
    /\ UNCHANGED <<inflight, profiles, redis, clock, ticks, uuidCount, saltCount,
                   outbox, handed, plain, revoked, resets>>

\* the account ids a caller of the repository may pass: those of rows, and
\* one of no row
RepoAccountIDs == {r.AccountID : r \in accounts} \cup {MaxUUID}
RepoTokens == {BlankToken, ResetToken("a@x.com", 0)}

NextRepo ==
    \/ \E e \in RepoEmails, p \in OutagePasswords, s \in RepoSalts, f \in TxStages :
            InsertAccountTx(e, p, s, f)
    \/ \E id \in RepoAccountIDs, v \in BOOLEAN, f \in TxStages :
            UpdateIsVerifiedTx(id, v, f)
    \/ \E id \in RepoAccountIDs, p \in RepoNewPasswords, s \in RepoNewSalts,
          f \in TxStages :
            UpdateSaltAndPasswordTx(id, p, s, f)
    \/ \E id \in RepoAccountIDs, t \in RepoTokens, f \in TxStages :
            UpdatePasswordTokenTx(id, t, f)

SpecRepo == Init /\ [][NextRepo]_vars

\* the rows of other accounts than accountId
OtherRows(rows, accountId) == {r \in rows : r.AccountID # accountId}

\* C22: a mutation of the account repository that returns an error (Begin,
\* Prepare, Exec or Commit failed) leaves the account table exactly as it
\* was, and one that returns nil has made its whole change, and only that:
\* the inserted row is there, or the columns the update names have the given
\* values in the row of the given id, all else being as before.
C22_MutationAllOrNothing ==
    [][/\ res'.err # "" => accounts' = accounts
       /\ \A f \in TxStages : f # "none" =>
            /\ \A e \in RepoEmails, p \in OutagePasswords, s \in RepoSalts :
                    InsertAccountTx(e, p, s, f) => res'.err # ""
            /\ \A id \in RepoAccountIDs, v \in BOOLEAN :
                    UpdateIsVerifiedTx(id, v, f) => res'.err # ""
            /\ \A id \in RepoAccountIDs, p \in RepoNewPasswords, s \in RepoNewSalts :
                    UpdateSaltAndPasswordTx(id, p, s, f) => res'.err # ""
            /\ \A id \in RepoAccountIDs, t \in RepoTokens :
                    UpdatePasswordTokenTx(id, t, f) => res'.err # ""
       /\ res'.err = "" =>
            /\ \A e \in RepoEmails, p \in OutagePasswords, s \in RepoSalts :
                InsertAccountTx(e, p, s, "none") =>
                    /\ OtherRows(accounts', uuidCount') = accounts
                    /\ \E r \in accounts' :
                        r = Account(uuidCount', e, hashPassword(p, s), s,
                                    BlankToken, FALSE, BlankToken)
            /\ \A id \in RepoAccountIDs, v \in BOOLEAN :
                UpdateIsVerifiedTx(id, v, "none") =>
                    /\ OtherRows(accounts', id) = OtherRows(accounts, id)
                    /\ \A r \in accounts : r.AccountID = id =>
                            [r EXCEPT !.IsVerified = v] \in accounts'
                    /\ Cardinality(accounts') = Cardinality(accounts)
            /\ \A id \in RepoAccountIDs, p \in RepoNewPasswords, s \in RepoNewSalts :
                UpdateSaltAndPasswordTx(id, p, s, "none") =>
                    /\ OtherRows(accounts', id) = OtherRows(accounts, id)
                    /\ \A r \in accounts : r.AccountID = id =>
                            [r EXCEPT !.Salt = s, !.Password = hashPassword(p, s)]
                                \in accounts'
                    /\ Cardinality(accounts') = Cardinality(accounts)
            /\ \A id \in RepoAccountIDs, t \in RepoTokens :
                UpdatePasswordTokenTx(id, t, "none") =>
                    /\ OtherRows(accounts', id) = OtherRows(accounts, id)
                    /\ \A r \in accounts : r.AccountID = id =>
                            [r EXCEPT !.PasswordToken = t] \in accounts'
                    /\ Cardinality(accounts') = Cardinality(accounts)
      ]_vars

\* a Commit of UpdateSaltAndPassword has failed on a table of two accounts,
\* one of them verified and holding a password token
C22_Witness ==
    /\ res = Result("UpdateSaltAndPassword", "USP04", {})
    /\ Cardinality(accounts) = 2
    /\ \E r \in accounts : r.IsVerified /\ r.PasswordToken # BlankToken

\* C23: a ChangePassword that returns nil gives the account a new salt and
\* a hash that the new password passes and the previous password, when it
\* differs from the new one, fails (Login returns Unauthorized for it); the
\* account's id, e-mail and verified flag stay as they were.
C23_PasswordReplaced ==
    [][Called("ChangePassword") /\ res'.err = "" =>
        \A t \in PresentableTokens, p \in Passwords :
            ChangePassword(t, p, "none") =>
                \A a \in AccountsOf(t) :
                    \E b \in accounts' :
                        /\ b.AccountID = a.AccountID
                        /\ b.Email = a.Email
                        /\ b.IsVerified = a.IsVerified
                        /\ b.Salt # a.Salt
                        /\ comparePassword(p, b.Salt, b.Password)
                        /\ \A q \in Passwords :
                            IsPlain(a, q) /\ q # p => LoginCheck(q, b) = "LGU03"
      ]_vars

----------------------------------------------------------------------------
(* AuthUsecase.ChangePassword and AuthUsecase.ResetPassword served to       *)
(* several callers at once: one step for each call of the repository, every *)
(* such call being a transaction of its own. A caller that has returned nil *)
(* stays at "changed" resp. "mailed", with the token of its call            *)

\* lines 257-289: parse, expiry, GetAccount, the token against the one on file
ChangeGetAccount(c, token) ==
    LET found == GetAccount(AccountFilter(token.email, NoUUID))
    IN
    /\ inflight[c] = Idle
    /\ IF ChangeCheck(token, clock) # ""
            THEN Fail("ChangePassword", ChangeCheck(token, clock))
       ELSE IF found = {} THEN Fail("ChangePassword", "CPW02")
       ELSE \E account \in found :
            IF ~TokenMatches(token, account) THEN Fail("ChangePassword", "CPW03")
            ELSE Proceed(c, "update_password", {account}, {}, {token})

\* lines 291-304: generateSalt, hashPassword, UpdateSaltAndPassword
ChangeUpdatePassword(c, password) ==
    /\ inflight[c].pc = "update_password"
    /\ \E account \in inflight[c].regAccount :
        LET salt == generateSalt
        IN
        /\ accounts' = UpdateSaltAndPassword(accounts,
                           [AccountID |-> account.AccountID, Salt |-> salt,
                            Password |-> hashPassword(password, salt)])
        /\ plain' = SetPlain(account.AccountID, password)
        /\ saltCount' = saltCount + 1
        /\ inflight' = [inflight EXCEPT ![c].pc = "clear_token"]
        /\ UNCHANGED <<profiles, redis, clock, ticks, uuidCount, faults, outbox,
                       handed, res, revoked, resets>>

\* lines 306-314: UpdatePasswordToken with the blank token, return nil
ChangeClearToken(c) ==
    /\ inflight[c].pc = "clear_token"
    /\ \E account \in inflight[c].regAccount :
        /\ accounts' = UpdatePasswordToken(accounts,
                           [AccountID |-> account.AccountID,
                            PasswordToken |-> ClearedPasswordToken(account)])
        /\ res' = Result("ChangePassword", "", {})
        /\ inflight' = [inflight EXCEPT ![c].pc = "changed"]
        /\ UNCHANGED <<profiles, redis, clock, ticks, uuidCount, saltCount, faults,
                       outbox, handed, plain, revoked, resets>>

\* the ResetPassword calls that are under way
Resetting == {c \in Callers : inflight[c].pc \in {"update_token", "send_mail"}}

\* lines 211-227: the token of this second, GetAccount, the verified flag
ResetGetAccount(c, email) ==
    LET found == GetAccount(AccountFilter(email, NoUUID))
    IN
    /\ inflight[c] = Idle
    /\ IF found = {} THEN Fail("ResetPassword", "RPA00")
       ELSE \E account \in found :
            IF ~account.IsVerified THEN Fail("ResetPassword", "RPA01")
            ELSE /\ Len(resets) + Cardinality(Resetting) < MaxResets
                 /\ Proceed(c, "update_token", {account}, {},
                            {ResetToken(email, Now)})

\* lines 229-235: UpdatePasswordToken with the new token
ResetUpdateToken(c) ==
    /\ inflight[c].pc = "update_token"
    /\ \E account \in inflight[c].regAccount, token \in inflight[c].token :
        /\ accounts' = UpdatePasswordToken(accounts,
                           [AccountID |-> account.AccountID, PasswordToken |-> token])
        /\ inflight' = [inflight EXCEPT ![c].pc = "send_mail"]
        /\ UNCHANGED <<profiles, redis, clock, ticks, uuidCount, saltCount, faults,
                       outbox, handed, res, plain, revoked, resets>>

\* lines 237-247: SendMail of the link with the token, return nil
ResetSendMail(c) ==
    /\ inflight[c].pc = "send_mail"
    /\ \E account \in inflight[c].regAccount, token \in inflight[c].token :
        /\ resets' = Append(resets, [AccountID |-> account.AccountID,
                                     token |-> token])
        /\ res' = Result("ResetPassword", "", {})
        /\ inflight' = [inflight EXCEPT ![c].pc = "mailed"]
        /\ UNCHANGED <<accounts, profiles, redis, clock, ticks, uuidCount,
                       saltCount, faults, outbox, handed, plain, revoked>>

ChangedPasswords == {PwShort, PwLongA}

\* an account signed up, verified and sent a reset mail, then two callers
\* changing or resetting its password at the same time
NextChanges ==
    \/ \E e \in Emails, p \in OutagePasswords, n \in FullNames, f \in NoFault :
            SignUp(e, p, n, f)
    \/ \E t \in KnownTokens, f \in NoFault : VerifyEmail(t, f)
    \/ \E e \in Emails, f \in NoFault : ResetPassword(e, f)
    \/ \E c \in Callers, t \in KnownTokens : ChangeGetAccount(c, t)
    \/ \E c \in Callers, p \in ChangedPasswords : ChangeUpdatePassword(c, p)
    \/ \E c \in Callers : ChangeClearToken(c)
    \/ \E c \in Callers, e \in Emails : ResetGetAccount(c, e)
    \/ \E c \in Callers : ResetUpdateToken(c)
    \/ \E c \in Callers : ResetSendMail(c)
    \/ \E d \in LoginJumps : Tick(d)

SpecChanges == Init /\ [][NextChanges]_vars

\* the reset mails that carried token
MailsOf(token) == {i \in 1..Len(resets) : resets[i].token = token}

\* C24: of two ChangePassword calls served at the same time with the same
\* valid reset token, at most one returns nil: a token that was mailed once
\* changes the password once, however the calls interleave.
C24_OneChangePerToken ==
    \A c, d \in Callers :
        /\ c # d
        /\ inflight[c].pc = "changed"
        /\ inflight[d].pc = "changed"
        /\ inflight[c].token = inflight[d].token
        => \E t \in inflight[c].token : Cardinality(MailsOf(t)) > 1

\* no call is under way
Quiescent == \A c \in Callers : inflight[c].pc \in {"idle", "changed", "mailed"}

\* C25: when ChangePassword(T1, pw) is served at the same time as a
\* ResetPassword for the same account that began after T1 was mailed, mints
\* another token T2 and returns nil, then once both have finished T2 is the
\* stored PasswordToken, and a ChangePassword presenting T2 passes the token
\* check: ChangePassword has blanked only the token it consumed.
C25_ResetSurvivesChange ==
    \A c, d \in Callers :
        /\ Quiescent
        /\ inflight[d].pc = "changed"
        /\ inflight[c].pc = "mailed"
        /\ Len(resets) = 2
        /\ inflight[d].token = {resets[1].token}
        /\ inflight[c].token = {resets[2].token}
        /\ resets[2].token.exp > resets[1].token.exp
        => \A t \in inflight[c].token :
                /\ ChangeCheck(t, clock) = ""
                /\ \E a \in AccountsOf(t) : TokenMatches(t, a)

----------------------------------------------------------------------------
(* Lookups by e-mail: the e-mail of an account, of no account, and none *)

LookupEmails == {"a@x.com", "b@x.com", ""}

NextLookups ==
    \/ \E e \in Emails, p \in OutagePasswords, n \in FullNames, f \in NoFault :
            SignUp(e, p, n, f)
    \/ \E t \in KnownTokens, f \in NoFault : VerifyEmail(t, f)
    \/ \E e \in LookupEmails, p \in OutagePasswords, f \in NoFault : Login(e, p, f)
    \/ \E e \in LookupEmails, f \in NoFault : ResetPassword(e, f)
    \/ \E t \in KnownTokens, p \in ChangedPasswords, f \in NoFault :
            ChangePassword(t, p, f)
    \/ \E d \in LoginJumps : Tick(d)

SpecLookups == Init /\ [][NextLookups]_vars

\* no account has this e-mail
Unregistered(email) == \A a \in accounts : a.Email # email

\* C26: Login, ResetPassword, VerifyEmail and ChangePassword given an e-mail
\* (directly or as the token's claim) that is the e-mail of no stored
\* account, the empty string included, return NotFound and change no account
\* and no session.
C26_UnknownEmailNotFound ==
    [][\A e \in LookupEmails : Unregistered(e) =>
        /\ \A p \in OutagePasswords : Login(e, p, "none") =>
                /\ ErrKind(res'.err) = "NotFound"
                /\ accounts' = accounts /\ redis' = redis
        /\ ResetPassword(e, "none") =>
                /\ ErrKind(res'.err) = "NotFound"
                /\ accounts' = accounts
        /\ \A t \in KnownTokens :
            /\ t.email = e /\ VerifyCheck(t, clock) = "" /\ VerifyEmail(t, "none") =>
                    /\ ErrKind(res'.err) = "NotFound"
                    /\ accounts' = accounts
            /\ \A p \in ChangedPasswords :
                t.email = e /\ ChangeCheck(t, clock) = "" /\ ChangePassword(t, p, "none")
                    => /\ ErrKind(res'.err) = "NotFound"
                       /\ accounts' = accounts
      ]_vars

----------------------------------------------------------------------------
(* What a failed Login or RefreshToken leaves in the session store *)

\* C27 as stated: a Login or RefreshToken that returns an error leaves the
\* session store exactly as it was.
C27_FailedCallLeavesStore ==
    [][Called("Login") \/ Called("RefreshToken") =>
        \A e \in Emails, p \in OutagePasswords, t \in KnownTokens :
            /\ \A f \in LoginFaults :
                    Login(e, p, f) /\ res'.err # "" => redis' = redis
            /\ \A f \in RefreshFaults :
                    RefreshToken(t, f) /\ res'.err # "" => redis' = redis
      ]_vars

\* the store after a call that returned an error: nothing is removed, no
\* pair is returned, and the one entry the call can have added is the access
\* session id it registered before registering the refresh session id
\* failed, an id of no token that was ever returned
FailedCallLeaves(fault) ==
    /\ res'.out = {}
    /\ handed' = handed
    /\ redis \subseteq redis'
    /\ fault # "redis_set_refresh" => redis' = redis
    /\ Cardinality(redis' \ redis) <= 1
    /\ \A x \in redis' \ redis :
        /\ x.value.access_uuid # NoUUID
        /\ x.value.refresh_uuid = NoUUID
        /\ \A pair \in handed' : x.key \notin SessionIds(pair)

\* C27, amended: a Login or RefreshToken that returns an error returns no
\* pair, removes nothing from the session store and registers no refresh
\* session id; it leaves the store unchanged except when registering the
\* refresh session id failed after the access session id was registered:
\* then that one access entry, of a token never returned, stays in the store.
C27_FailedCallLeavesOnlyAccessEntry ==
    \* a step that changes neither the store nor the pairs returned has
    \* nothing to answer for
    [][/\ Called("Login") \/ Called("RefreshToken")
       /\ res'.err # ""
       /\ redis' # redis \/ handed' # handed \/ res'.out # {}
       =>
        \A e \in Emails, p \in OutagePasswords, t \in KnownTokens :
            /\ \A f \in LoginFaults :
                    Login(e, p, f) /\ res'.err # "" => FailedCallLeaves(f)
            /\ \A f \in RefreshFaults :
                    RefreshToken(t, f) /\ res'.err # "" => FailedCallLeaves(f)
      ]_vars

\* a Login has failed registering the refresh session id, and the access
\* entry it registered is in the store
C27_Witness ==
    /\ res = Result("Login", "REDIS", {})
    /\ \E x \in redis :
        /\ x.value.access_uuid # NoUUID
        /\ \A pair \in handed : x.key \notin SessionIds(pair)

\* C28: a SignOut whose deletion of the access session id fails returns that
\* error and deletes nothing: the refresh session entry is still in the
\* session store, and a RefreshToken that follows with a refresh token whose
\* entry is there returns a pair.
C28_FailedSignOutKeepsRefresh ==
    [][/\ Called("SignOut") /\ res'.err = "SOU00" =>
            \A a \in AccessTokens, r \in RefreshTokens :
                SignOut(a, r, "redis_del_access") =>
                    /\ ErrKind(res'.err) = "Internal"
                    /\ redis' = redis
                    /\ revoked' = revoked
                    /\ \A x \in redis : x.key = r.refresh_uuid => x \in redis'
       /\ res = Result("SignOut", "SOU00", {}) /\ Called("RefreshToken") =>
            \A t \in RefreshTokens :
                /\ RedisGet(t.refresh_uuid) # {}
                /\ RefreshToken(t, "none")
                => /\ res'.err = ""
                   /\ \E pair \in res'.out : pair \in handed' \ handed
      ]_vars

\* a SignOut has failed deleting the access session id of a returned pair
\* whose two entries are in the store and whose refresh token still passes
\* the checks of RefreshToken
C28_Witness ==
    /\ res = Result("SignOut", "SOU00", {})
    /\ \E pair \in handed :
        /\ RedisGet(pair.AccessToken.access_uuid) # {}
        /\ RedisGet(pair.RefreshToken.refresh_uuid) # {}
        /\ RefreshCheck(pair.RefreshToken, Now, TRUE) = ""

----------------------------------------------------------------------------
(* The verified flag *)

AccountIDs(rows) == {r.AccountID : r \in rows}

\* C29: the verified flag is false when SignUp has inserted the account, it
\* never goes from true back to false, and it goes from false to true only
\* in a VerifyEmail call given a token signed with the secret, unexpired and
\* carrying that account's e-mail; and every session id entering the session
\* store is registered for an account whose flag is true at that moment.
C29_VerifiedMonotonicAndGated ==
    [][/\ \A a \in accounts : \E b \in accounts' :
            /\ b.AccountID = a.AccountID
            /\ a.IsVerified => b.IsVerified
       /\ \A b \in accounts' :
            b.AccountID \notin AccountIDs(accounts) =>
                /\ ~b.IsVerified
                /\ res' = Result("SignUp", "", {})
       /\ \A a \in accounts, b \in accounts' :
            /\ b.AccountID = a.AccountID
            /\ ~a.IsVerified
            /\ b.IsVerified
            => \E t \in PresentableTokens :
                /\ VerifyEmail(t, "none")
                /\ ParseToken(t, Now) = ""
                /\ ~IsExpired(t, clock)
                /\ t.email = a.Email
       /\ \A x \in redis' \ redis : \E a \in accounts :
            /\ a.AccountID = x.value.account_id
            /\ a.IsVerified
      ]_vars

\* a verified account has logged in: its sessions are in the store
C29_Witness ==
    /\ res.op = "Login"
    /\ res.err = ""
    /\ \E x \in redis, a \in accounts :
        a.AccountID = x.value.account_id /\ a.IsVerified

----------------------------------------------------------------------------
(* Tokens of the wrong purpose *)

\* the call returned an error, and the tables and the store are as they were
Refused ==
    /\ res'.err \notin {"", "PANIC"}
    /\ accounts' = accounts
    /\ redis' = redis

\* C30: a correctly signed, unexpired token of the wrong purpose makes the
\* call return an error, without a crash and without a change: RefreshToken
\* given a token without a refresh session id claim (an access, verification
\* or reset token), and VerifyEmail or ChangePassword given a token without
\* an e-mail claim (a refresh token).
C30_WrongPurposeRefused ==
    [][\A t \in KnownTokens : ParseToken(t, Now) = "" =>
        /\ t.refresh_uuid = NoUUID /\ RefreshToken(t, "none") => Refused
        /\ t.email = NoClaim /\ VerifyEmail(t, "none") => Refused
        /\ \A p \in Passwords :
                t.email = NoClaim /\ ChangePassword(t, p, "none") => Refused
      ]_vars

====
